---------------------------- MODULE Spec2Model ----------------------------
(* A model of translate_srt.py: the merge pass over subtitle cues          *)
(* (combine_continuous_subtitles) and the retrying remote call             *)
(* (translate_text).                                                        *)
(*                                                                          *)
(* A text is a sequence of symbols: a symbol is either the space SP or a    *)
(* word of the vocabulary.  Symbols that follow each other without SP are   *)
(* adjacent in the string ("ran" followed by "." is the string "ran.").     *)
(* The linguistic annotator (spaCy) is external to the program: it is       *)
(* modelled as a deterministic lookup that gives each word its token        *)
(* attributes.                                                              *)
EXTENDS Integers, Sequences, FiniteSets, TLC

VARIABLES
    \* ---- combine_continuous_subtitles
    srt_data,       \* the input list of cues
    combined_data,  \* the output list
    i,              \* the cursor (0-based, as in the source)
    mpc,            \* "loop" | "done" | "IndexError" | "idle"
    merges,         \* history: number of merges performed
    cover,          \* history: for each output cue <<first, last>> input positions (0-based)
    evaluated,      \* history: cursor values at which a pair (i, i+1) was evaluated
    reads,          \* history: positions of srt_data that were read
    \* ---- translate_text
    text,           \* the text argument
    max_retries,    \* the max_retries argument
    initial_delay,  \* the initial_delay argument
    attempt,        \* the loop variable of "for attempt in range(max_retries)"
    delay,          \* the current backoff delay
    tpc,            \* "attempting" | "returned" | "raised" | "idle"
    result,         \* the returned value (a text) once tpc = "returned"
    calls,          \* history: the outcome of every remote call, in order
    waits,          \* history: every completed time.sleep, in order
    \* ---- callers: a second merge pass, and main
    prev,           \* history: the inputs of the merge passes already completed
    mainpc,         \* "merging" | "translating" | "written" | "crashed" | "idle"
    blk,            \* main: the loop variable i of "for i, block in enumerate(..., 1)"
    pace_delay,     \* main: args.delay
    merged,         \* history: the list combine_continuous_subtitles returned to main
    runs,           \* history: one record per translate_text call that returned to main
    paces           \* history: the values of i after which main slept args.delay

mergeVars == <<srt_data, combined_data, i, mpc, merges, cover, evaluated, reads>>
retryVars == <<text, max_retries, initial_delay, attempt, delay, tpc, result, calls, waits>>
mainVars == <<prev, mainpc, blk, pace_delay, merged, runs, paces>>
vars == <<srt_data, combined_data, i, mpc, merges, cover, evaluated, reads,
          text, max_retries, initial_delay, attempt, delay, tpc, result, calls, waits,
          prev, mainpc, blk, pace_delay, merged, runs, paces>>

-----------------------------------------------------------------------------
(* Bounds of the model.                                                     *)

MaxCues == 3

-----------------------------------------------------------------------------
(* Texts.                                                                   *)

SP == " "

\* str.strip(): drop leading and trailing whitespace.
RECURSIVE LStrip(_)
LStrip(s) == IF s # <<>> /\ Head(s) = SP THEN LStrip(Tail(s)) ELSE s

RECURSIVE RStrip(_)
RStrip(s) == IF s # <<>> /\ s[Len(s)] = SP THEN RStrip(SubSeq(s, 1, Len(s) - 1)) ELSE s

Strip(s) == RStrip(LStrip(s))

\* The first and the last character of a word.
FirstChar(w) ==
    CASE w \in {"He"}         -> "upper"
      [] w \in {"\""}         -> "quote"
      [] w \in {".", "?"}     -> "punct"
      [] OTHER                -> "lower"

LastChar(w) ==
    CASE w \in {".", "vs."}   -> "."
      [] w \in {"?"}          -> "?"
      [] w \in {"\""}         -> "\""
      [] OTHER                -> "letter"

\* str.endswith / str.startswith / str[0].islower() / str[0].isupper() on a text.
EndsWith(s, c) == s # <<>> /\ s[Len(s)] # SP /\ LastChar(s[Len(s)]) = c
StartsWithQuote(s) == s # <<>> /\ Head(s) # SP /\ FirstChar(Head(s)) = "quote"
FirstIsLower(s) == Head(s) # SP /\ FirstChar(Head(s)) = "lower"
FirstIsUpper(s) == Head(s) # SP /\ FirstChar(Head(s)) = "upper"
LastInPunct(s) == s[Len(s)] # SP /\ LastChar(s[Len(s)]) \in {".", "!", "?", ",", "\""}

-----------------------------------------------------------------------------
(* The annotator: nlp(text) is the sequence of tokens of the text, and each *)
(* token has the attributes text, pos_, tag_, dep_ and head.i.              *)

pos_(w) ==
    CASE w \in {"of", "vs."}   -> "ADP"
      [] w \in {"to"}          -> "PART"
      [] w \in {"the"}         -> "DET"
      [] w \in {"and", "nor"}  -> "CCONJ"
      [] w \in {"ran", "running", "seen"} -> "VERB"
      [] w \in {"has"}         -> "AUX"
      [] w \in {"He"}          -> "PRON"
      [] w \in {"man"}         -> "NOUN"
      [] OTHER                 -> "PUNCT"

tag_(w) ==
    CASE w = "running" -> "VBG"
      [] w = "seen"    -> "VBN"
      [] w = "ran"     -> "VBD"
      [] OTHER         -> "XX"

dep_(w) ==
    CASE w \in {"of", "vs."}   -> "prep"
      [] w \in {"to"}          -> "mark"
      [] w \in {"the"}         -> "det"
      [] w \in {"and", "nor"}  -> "cc"
      [] w \in {"ran", "running", "seen"} -> "ROOT"
      [] w \in {"has"}         -> "aux"
      [] w \in {"He"}          -> "nsubj"
      [] w \in {"man"}         -> "dobj"
      [] OTHER                 -> "punct"

\* token.head.i: the position, in the token's own document, of its head.
head_i(w) == 0

\* token.text.lower()
lower(w) == IF w = "He" THEN "he" ELSE w

\* nlp(text): one token per word of the text.
nlp(s) == SelectSeq(s, LAMBDA w : w # SP)

-----------------------------------------------------------------------------
(* Cues.  A timestamp line has the form "start --> end"; it is a sequence    *)
(* of symbols in which ARROW stands for the delimiter " --> ".              *)

ARROW == " --> "

Times == <<"00:01", "00:02", "00:03", "00:04", "00:05", "00:06", "00:07", "00:08",
           "00:09", "00:10", "00:11", "00:12">>

\* The texts the input cues are drawn from.
Texts ==
    { <<"He", SP, "ran", SP, "of">>,
      <<SP, "He", SP, "ran", SP, "of", SP>>,
      <<"He", SP, "ran", SP, "vs.">>,
      <<"the", SP, "man">>,
      <<"He", SP, "ran", ".">>,
      <<"He", SP, "has", SP, "seen">>,
      <<"running", SP, "to">>,
      <<"and", SP, "He", SP, "ran", "?">>,
      <<"\"", "He", SP, "ran", "\"">>,
      <<"He", SP, "ran", SP, "the">>,
      <<"nor">>,
      <<"to">>,
      <<SP, SP>> }

\* The index lines of the input: the reader keeps whatever line the file has.
IndexSchemes == {"sequential", "constant"}

Digits == <<"0", "1", "2", "3", "4", "5", "6", "7", "8", "9">>

\* str(n) for n >= 0
RECURSIVE str(_)
str(n) == IF n < 10 THEN Digits[n + 1] ELSE str(n \div 10) \o Digits[(n % 10) + 1]

\* The k-th (1-based) input cue: its timestamp line is "start --> end".
InputCue(k, scheme, t) ==
    [ index     |-> IF scheme = "sequential" THEN str(k) ELSE "7",
      timestamp |-> <<Times[2 * k - 1], ARROW, Times[2 * k]>>,
      text      |-> t ]

\* str.split(' --> ')
RECURSIVE split(_)
split(ts) ==
    IF \A k \in 1..Len(ts) : ts[k] # ARROW
    THEN <<ts>>
    ELSE LET p == CHOOSE k \in 1..Len(ts) : ts[k] = ARROW /\ \A j \in 1..(k - 1) : ts[j] # ARROW
         IN  <<SubSeq(ts, 1, p - 1)>> \o split(SubSeq(ts, p + 1, Len(ts)))


-----------------------------------------------------------------------------
(* combine_continuous_subtitles: the merge decision for the pair            *)
(* (current_text, next_text), both already stripped, with                   *)
(* current_doc = nlp(current_text) and next_doc = nlp(next_text).           *)

last_token(doc) == doc[Len(doc)]
first_token(doc) == doc[1]
\* The tokens of a document: "for t in doc"
Tokens(doc) == {doc[k] : k \in 1..Len(doc)}

\* Variant of Cond1 that forgets particles.
Cond1_OnlyADP(ct, nt) == pos_(last_token(nlp(ct))) = "ADP"

\* Condition 1: current sentence ends with preposition or particle
Cond1(ct, nt) == pos_(last_token(nlp(ct))) \in {"ADP", "PART"}
\* Condition 2: current sentence ends with determiner or article
Cond2(ct, nt) == pos_(last_token(nlp(ct))) = "DET"
\* Condition 3: current sentence ends with specific conjunctions
Cond3(ct, nt) ==
    /\ pos_(last_token(nlp(ct))) = "CCONJ"
    /\ lower(last_token(nlp(ct))) \notin {"and", "or", "but"}
\* Condition 4: current sentence is the beginning of a clause but incomplete
Cond4(ct, nt) ==
    /\ dep_(last_token(nlp(ct))) \in {"mark", "prep"}
    /\ ~(\E t \in Tokens(nlp(ct)) : dep_(t) = "ROOT")
\* Condition 5: next sentence starts with present or past participle
Cond5(ct, nt) ==
    /\ tag_(first_token(nlp(nt))) \in {"VBG", "VBN"}
    /\ ~EndsWith(ct, ".")
\* Condition 6: current sentence has no complete predicate verb
Cond6(ct, nt) == ~(\E t \in Tokens(nlp(ct)) : dep_(t) = "ROOT" /\ pos_(t) = "VERB")
\* Condition 7: no ending punctuation and next segment starts with lowercase
Cond7(ct, nt) == ~LastInPunct(ct) /\ FirstIsLower(nt)
\* Condition 8: split phrases
Cond8(ct, nt) ==
    \E t \in Tokens(nlp(nt)) : /\ dep_(t) \in {"pobj", "dobj", "attr"}
                                /\ head_i(t) = Len(nlp(ct)) - 1
\* Condition 9: incomplete verb phrases
Cond9(ct, nt) ==
    /\ pos_(last_token(nlp(ct))) = "VERB"
    /\ \E t \in Tokens(nlp(ct)) : dep_(t) = "aux"
    /\ ~(\E t \in Tokens(nlp(ct)) : dep_(t) \in {"dobj", "attr", "prep"})

\* Variant of should_combine that is always true.
should_combine_Always(ct, nt) == TRUE

should_combine(ct, nt) ==
    \/ Cond1(ct, nt) \/ Cond2(ct, nt) \/ Cond3(ct, nt)
    \/ Cond4(ct, nt) \/ Cond5(ct, nt) \/ Cond6(ct, nt)
    \/ Cond7(ct, nt) \/ Cond8(ct, nt) \/ Cond9(ct, nt)

\* Avoid merging independent parallel clauses
VetoA(ct, nt) ==
    /\ lower(first_token(nlp(nt))) \in {"and", "or", "but"}
    /\ LastChar(last_token(nlp(ct))) = "."
\* Avoid merging obvious new sentences
VetoB(ct, nt) == FirstIsUpper(nt) /\ EndsWith(ct, ".")
\* Avoid merging quoted dialogue
VetoC(ct, nt) == EndsWith(ct, "\"") /\ StartsWithQuote(nt)
\* Avoid merging complete independent sentences
VetoD(ct, nt) ==
    /\ EndsWith(ct, ".")
    /\ \E t \in Tokens(nlp(ct)) : dep_(t) = "ROOT"
    /\ \E t \in Tokens(nlp(nt)) : dep_(t) = "ROOT"

\* Variant of should_not_combine that asks for all four conditions.
should_not_combine_All(ct, nt) ==
    VetoA(ct, nt) /\ VetoB(ct, nt) /\ VetoC(ct, nt) /\ VetoD(ct, nt)

should_not_combine(ct, nt) ==
    VetoA(ct, nt) \/ VetoB(ct, nt) \/ VetoC(ct, nt) \/ VetoD(ct, nt)

\* Variant of DoMerge that merges when a document has no token.
DoMerge_EmptyMerges(ct, nt) ==
    IF Len(nlp(ct)) = 0 \/ Len(nlp(nt)) = 0 THEN TRUE
    ELSE should_combine(ct, nt) /\ ~should_not_combine(ct, nt)

\* Lines 52 and 108: both documents are non-empty, a trigger holds, no veto holds.
DoMerge(ct, nt) ==
    /\ Len(nlp(ct)) > 0 /\ Len(nlp(nt)) > 0
    /\ should_combine(ct, nt)
    /\ ~should_not_combine(ct, nt)

\* Variant of MergedText without the separating space.
MergedText_NoSpace(ct, nt) == ct \o nt

\* Line 110: the merged text.
MergedText(ct, nt) == ct \o <<SP>> \o nt

\* Variant of MergedTimestamp that keeps the end of the current cue.
MergedTimestamp_KeepEnd(current_time, next_time) ==
    split(current_time)[1] \o <<ARROW>> \o split(current_time)[2]

\* Line 114: the merged timestamp line.
MergedTimestamp(current_time, next_time) ==
    split(current_time)[1] \o <<ARROW>> \o split(next_time)[2]

-----------------------------------------------------------------------------
(* combine_continuous_subtitles: the walk.                                  *)

\* Line 38: while i < len(srt_data)
LoopCond(k) == k < Len(srt_data)

\* Variant of HasNext with <= for <.
HasNext_OffByOne(k) == k + 1 <= Len(srt_data)

\* Line 43: if i + 1 < len(srt_data)
HasNext(k) == k + 1 < Len(srt_data)

\* srt_data[k] with a 0-based k
Item(k) == srt_data[k + 1]

\* Variant of Renumber that counts from 0.
Renumber_FromZero(out) == [k \in 1..Len(out) |-> [out[k] EXCEPT !.index = str(k - 1)]]

\* Lines 121-122: for idx, item in enumerate(combined_data, 1): item['index'] = str(idx)
Renumber(out) == [k \in 1..Len(out) |-> [out[k] EXCEPT !.index = str(k)]]

\* Variant of CursorAfterMerge that does not skip the absorbed cue.
CursorAfterMerge_NoSkip(k) == k + 1

\* The cursor after a merge at cursor k: "i += 1" twice (lines 115 and 118).
CursorAfterMerge(k) == (k + 1) + 1

InitMergeVars ==
    /\ \E n \in 0..MaxCues : \E scheme \in IndexSchemes : \E ts \in [1..n -> Texts] :
           srt_data = [k \in 1..n |-> InputCue(k, scheme, ts[k])]
    /\ combined_data = <<>>
    /\ i = 0
    /\ mpc = "loop"
    /\ merges = 0
    /\ cover = <<>>
    /\ evaluated = {}
    /\ reads = {}

\* One iteration in which there is no next subtitle: lines 39-43, 117-118.
AppendOnly ==
    /\ mpc = "loop"
    /\ LoopCond(i)
    /\ ~HasNext(i)
    /\ combined_data' = Append(combined_data, Item(i))
    /\ cover' = Append(cover, <<i, i>>)
    /\ reads' = reads \cup {i}
    /\ i' = i + 1
    /\ UNCHANGED <<srt_data, mpc, merges, evaluated>>
    /\ UNCHANGED retryVars
    /\ UNCHANGED mainVars

\* One iteration in which the pair (i, i + 1) is evaluated: lines 39-118.
Evaluate ==
    /\ mpc = "loop"
    /\ LoopCond(i)
    /\ HasNext(i)
    /\ IF i + 1 >= Len(srt_data)
       THEN \* srt_data[i + 1] raises IndexError
            /\ mpc' = "IndexError"
            /\ reads' = reads \cup {i, i + 1}
            /\ UNCHANGED <<srt_data, combined_data, i, merges, cover, evaluated>>
       ELSE LET current      == Item(i)
                current_text == Strip(current.text)
                next_text    == Strip(Item(i + 1).text)
            IN  /\ reads' = reads \cup {i, i + 1}
                /\ evaluated' = evaluated \cup {i}
                /\ IF DoMerge(current_text, next_text)
                   THEN /\ combined_data' = Append(combined_data,
                               [current EXCEPT
                                  !.text = MergedText(current_text, next_text),
                                  !.timestamp = MergedTimestamp(current.timestamp,
                                                                Item(i + 1).timestamp)])
                        /\ cover' = Append(cover, <<i, i + 1>>)
                        /\ merges' = merges + 1
                        /\ i' = CursorAfterMerge(i)
                   ELSE /\ combined_data' = Append(combined_data, current)
                        /\ cover' = Append(cover, <<i, i>>)
                        /\ merges' = merges
                        /\ i' = i + 1
                /\ UNCHANGED <<srt_data, mpc>>
    /\ UNCHANGED retryVars
    /\ UNCHANGED mainVars

\* The loop ends: the indices are renumbered and the list is returned (lines 120-124).
FinishMerge ==
    /\ mpc = "loop"
    /\ ~LoopCond(i)
    /\ combined_data' = Renumber(combined_data)
    /\ mpc' = "done"
    /\ UNCHANGED <<srt_data, i, merges, cover, evaluated, reads>>
    /\ UNCHANGED retryVars
    /\ UNCHANGED mainVars

IdleMainVars ==
    /\ prev = <<>>
    /\ mainpc = "idle"
    /\ blk = 0
    /\ pace_delay = 0
    /\ merged = <<>>
    /\ runs = <<>>
    /\ paces = <<>>

IdleRetryVars ==
    /\ text = <<>>
    /\ max_retries = 0
    /\ initial_delay = 0
    /\ attempt = 0
    /\ delay = 0
    /\ tpc = "idle"
    /\ result = <<>>
    /\ calls = <<>>
    /\ waits = <<>>

InitMerge == InitMergeVars /\ IdleRetryVars /\ IdleMainVars

NextMerge == AppendOnly \/ Evaluate \/ FinishMerge

SpecMerge == InitMerge /\ [][NextMerge]_vars

\* combine_continuous_subtitles is called again, on the list it returned.
RunAgain ==
    /\ mpc = "done"
    /\ prev = <<>>
    /\ prev' = Append(prev, srt_data)
    /\ srt_data' = combined_data
    /\ combined_data' = <<>>
    /\ i' = 0
    /\ mpc' = "loop"
    /\ merges' = 0
    /\ cover' = <<>>
    /\ evaluated' = {}
    /\ reads' = {}
    /\ UNCHANGED retryVars
    /\ UNCHANGED <<mainpc, blk, pace_delay, merged, runs, paces>>

NextTwice == AppendOnly \/ Evaluate \/ FinishMerge \/ RunAgain

SpecTwice == InitMerge /\ [][NextTwice]_vars

-----------------------------------------------------------------------------
(* translate_text: the values it works on.                                  *)

MaxRetries == 4

\* The text argument.
RequestTexts == { <<"He", SP, "ran", ".">>, <<SP, "the", SP, "man", SP>> }

\* The max_retries argument (an int of the command line).
RetryCounts == (-1)..MaxRetries

\* The initial_delay argument (a number of the command line, which accepts
\* negative numbers too).
InitialDelays == {-1, 0, 1, 3}

\* result['choices'][0]['message']['content'] of a success response.
Contents == { <<"T">>, <<SP, "T", "T", SP>> }

None == <<"None">>

\* Values of a Retry-After header, as strings of characters: seconds, or a date.
RetryAfterValues == { <<"3">>, <<"0">>, <<"W", "e", "d">> }

\* int(s): the value of a string of decimal digits with an optional sign, or
\* "ValueError" when the string is not one.
DigitChars == {"0", "1", "2", "3", "4", "5", "6", "7", "8", "9"}

DigitValue(c) == CHOOSE d \in 0..9 : Digits[d + 1] = c

RECURSIVE DigitsValue(_)
DigitsValue(s) ==
    IF s = <<>> THEN 0
    ELSE 10 * DigitsValue(SubSeq(s, 1, Len(s) - 1)) + DigitValue(s[Len(s)])

AllDigits(s) == s # <<>> /\ \A k \in 1..Len(s) : s[k] \in DigitChars

int(s) ==
    IF AllDigits(s) THEN DigitsValue(s)
    ELSE IF s # <<>> /\ Head(s) = "-" /\ AllDigits(Tail(s)) THEN 0 - DigitsValue(Tail(s))
    ELSE IF s # <<>> /\ Head(s) = "+" /\ AllDigits(Tail(s)) THEN DigitsValue(Tail(s))
    ELSE "ValueError"

IntRaises(s) == ~AllDigits(s) /\ ~(s # <<>> /\ Head(s) \in {"-", "+"} /\ AllDigits(Tail(s)))

\* time.sleep(d) raises ValueError for a negative d.
SleepRaises(d) == d < 0

\* Variant of Doubled that leaves the delay alone.
Doubled_Unchanged(d) == d

\* delay *= 2
Doubled(d) == d * 2

\* attempt < max_retries - 1
HasAttemptsLeft == attempt < max_retries - 1

\* result['choices'][0]['message']['content'].strip()
\* Variant of Extract that keeps the surrounding whitespace.
Extract_NoStrip(content) == content

Extract(content) == Strip(content)

-----------------------------------------------------------------------------
(* translate_text: one action per outcome of the remote call of one         *)
(* iteration of "for attempt in range(max_retries)".                        *)

InitRetryVars ==
    /\ text \in RequestTexts
    /\ max_retries \in RetryCounts
    /\ initial_delay \in InitialDelays
    /\ attempt = 0
    /\ delay = initial_delay
    /\ tpc = "attempting"
    /\ result = <<>>
    /\ calls = <<>>
    /\ waits = <<>>

\* for attempt in range(max_retries): the body runs
InLoop == tpc = "attempting" /\ attempt < max_retries

\* A completed time.sleep(d) followed by "continue"; hint is the header value
\* the duration came from, or None.
SleepAndContinue(d, hint, newDelay) ==
    /\ waits' = Append(waits, [dur |-> d, hint |-> hint])
    /\ delay' = newDelay
    /\ attempt' = attempt + 1
    /\ UNCHANGED <<tpc, result>>

\* return text
ReturnText ==
    /\ result' = text
    /\ tpc' = "returned"
    /\ UNCHANGED <<attempt, delay, waits>>

\* The "except Exception" handler (lines 186-193), entered with backoff delay d.
\* A time.sleep that raises here is not caught by anything.
Handler(d) ==
    IF HasAttemptsLeft
    THEN IF SleepRaises(d)
         THEN /\ tpc' = "raised"
              /\ delay' = d
              /\ UNCHANGED <<attempt, result, waits>>
         ELSE SleepAndContinue(d, None, Doubled(d))
    ELSE /\ delay' = d
         /\ result' = text
         /\ tpc' = "returned"
         /\ UNCHANGED <<attempt, waits>>

\* requests.post raises (lines 151-155, 186-193).
TransportFailure ==
    /\ InLoop
    /\ calls' = Append(calls, [kind |-> "transport", content |-> <<>>, retry_after |-> None])
    /\ Handler(delay)
    /\ UNCHANGED <<text, max_retries, initial_delay>>
    /\ UNCHANGED mergeVars
    /\ UNCHANGED mainVars

\* Status 200 with a body the translation is extracted from (lines 157-159).
RespondSuccess ==
    /\ InLoop
    /\ \E c \in Contents :
          /\ calls' = Append(calls, [kind |-> "ok", content |-> c, retry_after |-> None])
          /\ result' = Extract(c)
    /\ tpc' = "returned"
    /\ UNCHANGED <<text, max_retries, initial_delay, attempt, delay, waits>>
    /\ UNCHANGED mergeVars
    /\ UNCHANGED mainVars

\* Status 200 with a body that response.json() or the subscripts of line 159
\* raise on (lines 157-159, 186-193).
RespondMalformed ==
    /\ InLoop
    /\ calls' = Append(calls, [kind |-> "malformed", content |-> <<>>, retry_after |-> None])
    /\ Handler(delay)
    /\ UNCHANGED <<text, max_retries, initial_delay>>
    /\ UNCHANGED mergeVars
    /\ UNCHANGED mainVars

\* Status 429 (lines 160-175, and 186-193 when int or time.sleep raises).
RespondRateLimit ==
    /\ InLoop
    /\ \E h \in RetryAfterValues \cup {None} :
          /\ calls' = Append(calls, [kind |-> "ratelimit", content |-> <<>>, retry_after |-> h])
          /\ IF HasAttemptsLeft
             THEN IF h # None /\ h # <<>>
                  THEN IF IntRaises(h) THEN Handler(delay)
                       ELSE IF SleepRaises(int(h)) THEN Handler(delay)
                       ELSE SleepAndContinue(int(h), h, delay)
                  ELSE IF SleepRaises(delay) THEN Handler(Doubled(delay))
                       ELSE SleepAndContinue(delay, None, Doubled(delay))
             ELSE ReturnText
    /\ UNCHANGED <<text, max_retries, initial_delay>>
    /\ UNCHANGED mergeVars
    /\ UNCHANGED mainVars

\* Any other status (lines 176-184, and 186-193 when time.sleep raises).
RespondError ==
    /\ InLoop
    /\ calls' = Append(calls, [kind |-> "error", content |-> <<>>, retry_after |-> None])
    /\ IF HasAttemptsLeft
       THEN IF SleepRaises(delay) THEN Handler(delay)
            ELSE SleepAndContinue(delay, None, Doubled(delay))
       ELSE ReturnText
    /\ UNCHANGED <<text, max_retries, initial_delay>>
    /\ UNCHANGED mergeVars
    /\ UNCHANGED mainVars

\* range(max_retries) is used up: line 195.
LoopExhausted ==
    /\ tpc = "attempting"
    /\ ~(attempt < max_retries)
    /\ ReturnText
    /\ UNCHANGED <<text, max_retries, initial_delay, calls>>
    /\ UNCHANGED mergeVars
    /\ UNCHANGED mainVars

IdleMergeVars ==
    /\ srt_data = <<>>
    /\ combined_data = <<>>
    /\ i = 0
    /\ mpc = "idle"
    /\ merges = 0
    /\ cover = <<>>
    /\ evaluated = {}
    /\ reads = {}

InitRetry == InitRetryVars /\ IdleMergeVars /\ IdleMainVars

NextRetry ==
    \/ TransportFailure
    \/ RespondSuccess
    \/ RespondMalformed
    \/ RespondRateLimit
    \/ RespondError
    \/ LoopExhausted

SpecRetry == InitRetry /\ [][NextRetry]_vars

\* The state Succeeded: the last remote call gave the translation returned.
Succeeded ==
    /\ tpc = "returned"
    /\ calls # <<>>
    /\ calls[Len(calls)].kind = "ok"

\* The state Exhausted: the original text is returned.
Exhausted ==
    /\ tpc = "returned"
    /\ ~Succeeded
    /\ result = text

-----------------------------------------------------------------------------
(* main: read_srt, the merge pass, then one translate_text call for each     *)
(* merged cue with a pacing sleep between calls, then write_srt.            *)

\* The texts of the input file of main.
MainTexts == { <<"He", SP, "ran", SP, "of">>, <<"the", SP, "man">>, <<"He", SP, "ran", ".">> }

\* --max-retries, --initial-delay and --delay
MainRetryCounts == {0, 2}
MainInitialDelays == {-1, 1}
PaceDelays == {-1, 1}

\* total_blocks = len(combined_srt_data)
total_blocks == Len(merged)

\* Variant of MergeReturned that does not wait for the merge pass.
MergeReturned_Early == TRUE

\* combine_continuous_subtitles has returned (line 301 is passed).
MergeReturned == mpc = "done"

\* Variant of EntryDelay that keeps the delay the previous call ended with.
EntryDelay_CarriedOver(d) == IF runs = <<>> THEN d ELSE delay

\* delay = initial_delay, on entry of translate_text
EntryDelay(d) == d

\* Variant of Translated that overwrites the timestamp as well.
Translated_WholeCue(block, t) == [block EXCEPT !.text = t, !.timestamp = t]

\* block['text'] = translated_text
Translated(block, t) == [block EXCEPT !.text = t]

\* Variant of PaceAfter with <= for <.
PaceAfter_Every(k) == k <= total_blocks

\* if i < total_blocks
PaceAfter(k) == k < total_blocks

InitMain ==
    /\ \E n \in 0..MaxCues : \E ts \in [1..n -> MainTexts] :
           srt_data = [k \in 1..n |-> InputCue(k, "sequential", ts[k])]
    /\ combined_data = <<>>
    /\ i = 0
    /\ mpc = "loop"
    /\ merges = 0
    /\ cover = <<>>
    /\ evaluated = {}
    /\ reads = {}
    /\ text = <<>>
    /\ max_retries \in MainRetryCounts
    /\ initial_delay \in MainInitialDelays
    /\ attempt = 0
    /\ delay = 0
    /\ tpc = "idle"
    /\ result = <<>>
    /\ calls = <<>>
    /\ waits = <<>>
    /\ prev = <<>>
    /\ mainpc = "merging"
    /\ blk = 0
    /\ pace_delay \in PaceDelays
    /\ merged = <<>>
    /\ runs = <<>>
    /\ paces = <<>>

\* The translation loop is entered: lines 304-305.
BeginTranslation ==
    /\ mainpc = "merging"
    /\ MergeReturned
    /\ mainpc' = "translating"
    /\ merged' = combined_data
    /\ blk' = 1
    /\ UNCHANGED mergeVars
    /\ UNCHANGED retryVars
    /\ UNCHANGED <<prev, pace_delay, runs, paces>>

\* translate_text is called for block blk: lines 307-315 and 127-129.
CallTranslate ==
    /\ mainpc = "translating"
    /\ tpc = "idle"
    /\ blk <= Len(combined_data)
    /\ text' = combined_data[blk].text
    /\ attempt' = 0
    /\ delay' = EntryDelay(initial_delay)
    /\ tpc' = "attempting"
    /\ result' = <<>>
    /\ calls' = <<>>
    /\ waits' = <<>>
    /\ UNCHANGED <<max_retries, initial_delay>>
    /\ UNCHANGED mergeVars
    /\ UNCHANGED mainVars

\* translate_text has returned: the block's text is replaced and main sleeps
\* args.delay unless this was the last block (lines 316-320).
ReturnToMain ==
    /\ mainpc = "translating"
    /\ tpc = "returned"
    /\ combined_data' = [combined_data EXCEPT ![blk] = Translated(@, result)]
    /\ runs' = Append(runs, [cue |-> blk, exhausted |-> ~Succeeded, delay |-> delay])
    /\ tpc' = "idle"
    /\ IF PaceAfter(blk)
       THEN IF SleepRaises(pace_delay)
            THEN /\ mainpc' = "crashed"
                 /\ UNCHANGED <<blk, paces>>
            ELSE /\ paces' = Append(paces, blk)
                 /\ blk' = blk + 1
                 /\ UNCHANGED mainpc
       ELSE /\ blk' = blk + 1
            /\ UNCHANGED <<mainpc, paces>>
    /\ UNCHANGED <<srt_data, i, mpc, merges, cover, evaluated, reads>>
    /\ UNCHANGED <<text, max_retries, initial_delay, attempt, delay, result, calls, waits>>
    /\ UNCHANGED <<prev, pace_delay, merged>>

\* The error translate_text let through ends main: nothing catches it.
RaiseToMain ==
    /\ mainpc = "translating"
    /\ tpc = "raised"
    /\ mainpc' = "crashed"
    /\ UNCHANGED mergeVars
    /\ UNCHANGED retryVars
    /\ UNCHANGED <<prev, blk, pace_delay, merged, runs, paces>>

\* The loop is over: write_srt (line 323).
WriteSrt ==
    /\ mainpc = "translating"
    /\ tpc = "idle"
    /\ ~(blk <= Len(combined_data))
    /\ mainpc' = "written"
    /\ UNCHANGED mergeVars
    /\ UNCHANGED retryVars
    /\ UNCHANGED <<prev, blk, pace_delay, merged, runs, paces>>

NextMain ==
    \/ AppendOnly
    \/ Evaluate
    \/ FinishMerge
    \/ BeginTranslation
    \/ CallTranslate
    \/ TransportFailure
    \/ RespondSuccess
    \/ RespondMalformed
    \/ RespondRateLimit
    \/ RespondError
    \/ LoopExhausted
    \/ ReturnToMain
    \/ RaiseToMain
    \/ WriteSrt

SpecMain == InitMain /\ [][NextMain]_vars

-----------------------------------------------------------------------------
(* Properties of the merge pass.                                            *)

\* The input pair (k, k + 1), 0-based: the first cue ends with a preposition or
\* particle token, the second has at least one token, and no veto holds.
PrepositionPair(k) ==
    LET ct == Strip(srt_data[k + 1].text)
        nt == Strip(srt_data[k + 2].text)
    IN  /\ Len(nlp(ct)) > 0
        /\ Len(nlp(nt)) > 0
        /\ pos_(nlp(ct)[Len(nlp(ct))]) \in {"ADP", "PART"}
        /\ ~should_not_combine(ct, nt)

\* Some output cue is the merge of the input cues k and k + 1.
Combined(k) == \E c \in 1..Len(cover) : cover[c] = <<k, k + 1>>

\* The input cue k was absorbed into the cue before it.
Absorbed(k) == \E c \in 1..Len(cover) : cover[c] = <<k - 1, k>>

\* C5 as stated: every adjacent pair of the input whose first cue ends with a
\* preposition token and whose second cue is non-empty is combined into one
\* output cue, unless a veto holds for the pair.
C5_EveryPrepositionPairCombined ==
    mpc = "done" =>
        \A k \in 0..(Len(srt_data) - 2) : PrepositionPair(k) => Combined(k)

\* C5 amended: every such pair is combined unless a veto holds for it or its
\* first cue was itself absorbed into the cue before it during the pass.
C5_PrepositionPairCombinedUnlessAbsorbed ==
    mpc = "done" =>
        \A k \in 0..(Len(srt_data) - 2) :
            (PrepositionPair(k) /\ ~Absorbed(k)) => Combined(k)

C5_Witness ==
    /\ mpc = "done"
    /\ \E k \in 0..(Len(srt_data) - 2) :
          /\ PrepositionPair(k) /\ ~Absorbed(k) /\ Combined(k)
          /\ ~Cond6(Strip(srt_data[k + 1].text), Strip(srt_data[k + 2].text))
          /\ ~Cond7(Strip(srt_data[k + 1].text), Strip(srt_data[k + 2].text))

\* C6: after the pass the index fields of the output are "1", "2", ..., "n" in
\* output order, whatever the input indices were.
C6_IndicesSequential ==
    mpc = "done" =>
        \A k \in 1..Len(combined_data) : combined_data[k].index = str(k)

C6_Witness ==
    /\ mpc = "done"
    /\ Len(combined_data) = 2
    /\ merges = 1
    /\ \A k \in 1..Len(srt_data) : srt_data[k].index = "7"

\* C7: the number of output cues is the number of input cues minus the number
\* of merges performed.
C7_CountIsInputMinusMerges ==
    mpc = "done" => Len(combined_data) = Len(srt_data) - merges

C7_Witness ==
    /\ mpc = "done"
    /\ Len(srt_data) = 3
    /\ merges = 1
    /\ Len(combined_data) = 2

\* C8: a merged cue's timestamp is "start of the absorbing cue --> end of the
\* absorbed cue"; a cue that was not merged keeps its timestamp line.
C8_TimestampUnion ==
    \A c \in 1..Len(combined_data) :
        LET first == srt_data[cover[c][1] + 1]
            last  == srt_data[cover[c][2] + 1]
        IN  IF cover[c][1] # cover[c][2]
            THEN combined_data[c].timestamp = <<first.timestamp[1], ARROW, last.timestamp[3]>>
            ELSE combined_data[c].timestamp = first.timestamp

C8_Witness ==
    /\ mpc = "done"
    /\ \E c \in 1..Len(combined_data) :
          /\ cover[c] = <<1, 2>>
          /\ combined_data[c].timestamp = <<"00:03", ARROW, "00:06">>

\* The output covers the input in order: consecutive spans of one or two cues,
\* none skipped, none repeated.
CoversInOrder ==
    /\ Len(cover) = Len(combined_data)
    /\ \A c \in 1..Len(cover) :
          /\ cover[c][1] = (IF c = 1 THEN 0 ELSE cover[c - 1][2] + 1)
          /\ cover[c][2] \in {cover[c][1], cover[c][1] + 1}
          /\ cover[c][2] < Len(srt_data)
    /\ mpc = "done" =>
          (IF cover = <<>> THEN Len(srt_data) = 0
           ELSE cover[Len(cover)][2] = Len(srt_data) - 1)

\* C9 as stated: a merged cue's text is the first cue's text, one space, the
\* second cue's text; other texts are unchanged; order is kept.
C9_MergedTextIsRawConcatenation ==
    /\ CoversInOrder
    /\ \A c \in 1..Len(combined_data) :
          LET first == srt_data[cover[c][1] + 1]
              last  == srt_data[cover[c][2] + 1]
          IN  IF cover[c][1] # cover[c][2]
              THEN combined_data[c].text = first.text \o <<SP>> \o last.text
              ELSE combined_data[c].text = first.text

\* C9 amended: a merged cue's text is the first cue's text with leading and
\* trailing whitespace removed, one space, and the second cue's text with
\* leading and trailing whitespace removed; other texts are unchanged
\* (whitespace included); order is kept.
C9_MergedTextIsStrippedConcatenation ==
    /\ CoversInOrder
    /\ \A c \in 1..Len(combined_data) :
          LET first == srt_data[cover[c][1] + 1]
              last  == srt_data[cover[c][2] + 1]
          IN  IF cover[c][1] # cover[c][2]
              THEN combined_data[c].text = Strip(first.text) \o <<SP>> \o Strip(last.text)
              ELSE combined_data[c].text = first.text

C9_Witness ==
    /\ mpc = "done"
    /\ Len(combined_data) = 2
    /\ cover = << <<0, 1>>, <<2, 2>> >>
    /\ srt_data[1].text = <<SP, "He", SP, "ran", SP, "of", SP>>
    /\ combined_data[1].text = <<"He", SP, "ran", SP, "of", SP, "the", SP, "man">>
    /\ combined_data[2].text = <<SP, SP>>

\* C10: the pass never reads a cue that does not exist, and the last cue is
\* never the first cue of an evaluated pair.
C10_NoReadPastEnd ==
    /\ mpc # "IndexError"
    /\ \A r \in reads : r < Len(srt_data)
    /\ \A e \in evaluated : e + 1 < Len(srt_data)

C10_Witness ==
    /\ mpc = "done"
    /\ Len(srt_data) = 3
    /\ cover = << <<0, 0>>, <<1, 2>> >>
    /\ reads = {0, 1, 2}
    /\ evaluated = {0, 1}

-----------------------------------------------------------------------------
(* Properties of translate_text.                                            *)

Failed(c) == c.kind \in {"ratelimit", "error", "transport"}

Finished == tpc \in {"returned", "raised"}

\* C1 as stated: the call never ends by propagating an error; it returns the
\* translation or the original text.
C1_NeverRaises ==
    /\ tpc # "raised"
    /\ tpc = "returned" =>
          \/ result = text
          \/ \E c \in Contents : result = Extract(c)

\* C2 as stated: when every remote call fails and max_retries = N >= 0, the
\* call returns the original text unchanged after exactly N remote calls.
C2_AllFailReturnsTextAfterNCalls ==
    (/\ Finished
     /\ max_retries >= 0
     /\ \A j \in 1..Len(calls) : Failed(calls[j]))
    => /\ tpc = "returned"
       /\ result = text
       /\ Len(calls) = max_retries

\* The remote calls so far were k rate-limit responses and then one success.
RateLimitsThenSuccess ==
    /\ calls # <<>>
    /\ calls[Len(calls)].kind = "ok"
    /\ \A j \in 1..(Len(calls) - 1) : calls[j].kind = "ratelimit"

\* C3 as stated: after k rate-limit responses and one success the call returns
\* the success payload, having blocked for exactly k waits; the j-th wait lasts
\* the hint of the j-th response when it carries one, and the backoff delay
\* otherwise.
C3_WaitsHonourEveryHint ==
    (Finished /\ RateLimitsThenSuccess)
    => /\ tpc = "returned"
       /\ result = Extract(calls[Len(calls)].content)
       /\ Len(waits) = Len(calls) - 1
       /\ \A j \in 1..Len(waits) : waits[j].hint = calls[j].retry_after

RECURSIVE Pow2(_)
Pow2(n) == IF n <= 0 THEN 1 ELSE 2 * Pow2(n - 1)

\* The number of waits among the first k that were not driven by a hint.
NonHintWaits(k) == Cardinality({j \in 1..k : waits[j].hint = None})

\* C4: the backoff delay starts at initial_delay and doubles exactly on each wait
\* that is not driven by a hint; a hint-driven wait lasts the hint and leaves
\* the delay alone, so the j-th non-hint wait lasts initial_delay * 2^(j-1).
C4_BackoffDoublesOnNonHintWaits ==
    /\ \A j \in 1..Len(waits) :
          IF waits[j].hint = None
          THEN waits[j].dur = initial_delay * Pow2(NonHintWaits(j) - 1)
          ELSE /\ waits[j].hint = calls[j].retry_after
               /\ waits[j].dur = DigitsValue(waits[j].hint)
    /\ tpc \in {"attempting", "returned"} =>
          delay = initial_delay * Pow2(NonHintWaits(Len(waits)))

C4_Witness ==
    /\ initial_delay = 3
    /\ Len(waits) = 3
    /\ waits[1] = [dur |-> 3, hint |-> None]
    /\ waits[2] = [dur |-> 0, hint |-> <<"0">>]
    /\ waits[3] = [dur |-> 6, hint |-> None]
    /\ delay = 12

-----------------------------------------------------------------------------
(* More properties of the merge pass.                                       *)

\* The stripped texts of the input cues k and k + 1 (0-based).
CurrentText(k) == Strip(srt_data[k + 1].text)
NextText(k) == Strip(srt_data[k + 2].text)

BothHaveTokens(k) == Len(nlp(CurrentText(k))) > 0 /\ Len(nlp(NextText(k))) > 0

\* One of the nine trigger conditions holds for the pair (k, k + 1).
SomeTrigger(k) ==
    LET ct == CurrentText(k)
        nt == NextText(k)
    IN  \/ Cond1(ct, nt) \/ Cond2(ct, nt) \/ Cond3(ct, nt)
        \/ Cond4(ct, nt) \/ Cond5(ct, nt) \/ Cond6(ct, nt)
        \/ Cond7(ct, nt) \/ Cond8(ct, nt) \/ Cond9(ct, nt)

\* One of the four veto conditions holds for the pair (k, k + 1).
SomeVeto(k) ==
    LET ct == CurrentText(k)
        nt == NextText(k)
    IN  VetoA(ct, nt) \/ VetoB(ct, nt) \/ VetoC(ct, nt) \/ VetoD(ct, nt)

\* C12: a pair is merged only when a trigger holds and no veto holds; a pair
\* for which a veto holds is not merged, whichever triggers are true.
C12_MergedOnlyOnTriggerWithoutVeto ==
    \A k \in 0..(Len(srt_data) - 2) :
        /\ Combined(k) => (BothHaveTokens(k) /\ SomeTrigger(k) /\ ~SomeVeto(k))
        /\ (BothHaveTokens(k) /\ SomeVeto(k)) => ~Combined(k)

C12_Witness ==
    /\ mpc = "done"
    /\ Len(srt_data) = 2
    /\ 0 \in evaluated
    /\ BothHaveTokens(0)
    /\ Cond1(CurrentText(0), NextText(0))
    /\ VetoB(CurrentText(0), NextText(0))
    /\ ~VetoA(CurrentText(0), NextText(0))
    /\ ~Combined(0)
    /\ Len(combined_data) = 2

\* C13: a pair is merged only if both cues have tokens; a cue without tokens
\* neither merges forward nor is absorbed: it is emitted on its own, as it was.
C13_EmptyCueNeverMerges ==
    /\ \A k \in 0..(Len(srt_data) - 2) : Combined(k) => BothHaveTokens(k)
    /\ \A c \in 1..Len(combined_data) :
          Len(nlp(Strip(srt_data[cover[c][1] + 1].text))) = 0
          => /\ cover[c][2] = cover[c][1]
             /\ combined_data[c].text = srt_data[cover[c][1] + 1].text
    /\ mpc = "done" =>
          \A k \in 0..(Len(srt_data) - 1) :
              Len(nlp(Strip(srt_data[k + 1].text))) = 0
              => \E c \in 1..Len(cover) : cover[c] = <<k, k>>

C13_Witness ==
    /\ mpc = "done"
    /\ Len(srt_data) = 3
    /\ srt_data[2].text = <<SP, SP>>
    /\ srt_data[1].text = <<"He", SP, "ran", SP, "of">>
    /\ srt_data[3].text = <<"the", SP, "man">>
    /\ evaluated = {0, 1}
    /\ merges = 0
    /\ combined_data[2].text = <<SP, SP>>

\* The stripped text of the output cue c, as the pass would read it.
OutText(c) == Strip(combined_data[c].text)

\* C19: a cue produced by a merge is not compared with the cue that follows:
\* the absorbed cue never starts a pair, and every output cue is one input
\* cue or the merge of exactly two consecutive input cues.
C19_MergedCueNotComparedAgain ==
    /\ \A k \in 0..(Len(srt_data) - 2) :
          Combined(k) => /\ (k + 1) \notin evaluated
                         /\ ~Combined(k + 1)
    /\ \A c \in 1..Len(combined_data) :
          \/ \E k \in 1..Len(srt_data) : combined_data[c].text = srt_data[k].text
          \/ \E k \in 1..(Len(srt_data) - 1) :
                combined_data[c].text =
                    Strip(srt_data[k].text) \o <<SP>> \o Strip(srt_data[k + 1].text)

\* A merged cue is followed by a cue it would have merged with.
C19_Witness ==
    /\ mpc = "done"
    /\ Len(srt_data) = 3
    /\ cover = << <<0, 1>>, <<2, 2>> >>
    /\ Len(nlp(OutText(1))) > 0 /\ Len(nlp(OutText(2))) > 0
    /\ Cond1(OutText(1), OutText(2))
    /\ ~VetoA(OutText(1), OutText(2)) /\ ~VetoB(OutText(1), OutText(2))
    /\ ~VetoC(OutText(1), OutText(2)) /\ ~VetoD(OutText(1), OutText(2))

-----------------------------------------------------------------------------
(* The merge pass run again on its own output.                              *)

ExhibitsTrigger(k) == BothHaveTokens(k) /\ SomeTrigger(k)

\* C11: in a second pass over the output of the first, a pair that exhibits no
\* trigger condition is not merged and its cues come back as they were; when
\* no pair exhibits a trigger condition the pass returns its input unchanged.
C11_SecondPassKeepsCuesWithoutTrigger ==
    prev # <<>> =>
       /\ \A k \in 0..(Len(srt_data) - 2) : ~ExhibitsTrigger(k) => ~Combined(k)
       /\ \A c \in 1..Len(combined_data) :
             cover[c][1] = cover[c][2] =>
                /\ combined_data[c].text = srt_data[cover[c][1] + 1].text
                /\ combined_data[c].timestamp = srt_data[cover[c][1] + 1].timestamp
       /\ (mpc = "done" /\ \A k \in 0..(Len(srt_data) - 2) : ~ExhibitsTrigger(k))
             => combined_data = srt_data

C11_Witness ==
    /\ Len(prev) = 1
    /\ Len(prev[1]) = 3
    /\ prev[1][1].text = <<"He", SP, "ran", SP, "of">>
    /\ mpc = "done"
    /\ Len(srt_data) = 2
    /\ srt_data[1].text = <<"He", SP, "ran", SP, "of", SP, "He", SP, "ran", ".">>
    /\ ~ExhibitsTrigger(0)
    /\ ~SomeVeto(0)
    /\ merges = 0
    /\ combined_data = srt_data

-----------------------------------------------------------------------------
(* More properties of one translate_text call.                              *)

Status200(c) == c.kind \in {"ok", "malformed"}

AllowedCalls == IF max_retries > 0 THEN max_retries ELSE 0

\* C14 as stated: every call ends in Succeeded or Exhausted, after at most
\* max_retries remote calls; each wait is followed by another remote call, so
\* a finished call has at most (remote calls - 1) waits and none after its
\* final failed attempt.
C14_EndsSucceededOrExhausted ==
    /\ Len(calls) <= AllowedCalls
    /\ Len(waits) <= Len(calls)
    /\ Finished =>
          /\ Succeeded \/ Exhausted
          /\ calls # <<>> => Len(waits) <= Len(calls) - 1
    /\ tpc = "attempting" => (attempt = Len(calls) /\ Len(waits) = Len(calls))

\* C15 as stated, for calls whose initial delay is a valid sleep duration:
\* a status-200 response is the last remote call, ends the call at once in
\* Succeeded, and no wait follows it.
C15_EverySuccessResponseEndsCall ==
    ~SleepRaises(initial_delay) =>
       \A k \in 1..Len(calls) :
          Status200(calls[k]) =>
             /\ k = Len(calls)
             /\ Succeeded
             /\ Len(waits) = k - 1

\* C15 amended: a status-200 response whose body yields the translation is the
\* last remote call, ends the call at once in Succeeded with that translation
\* (surrounding whitespace removed) as the result, and no wait follows it.
C15_WellFormedSuccessEndsCall ==
    \A k \in 1..Len(calls) :
       calls[k].kind = "ok" =>
          /\ k = Len(calls)
          /\ Succeeded
          /\ result = Strip(calls[k].content)
          /\ Len(waits) = k - 1

C15_Witness ==
    /\ Len(calls) = 3
    /\ calls[1].kind = "error"
    /\ calls[2].kind = "malformed"
    /\ calls[3].kind = "ok"
    /\ calls[3].content = <<SP, "T", "T", SP>>
    /\ result = <<"T", "T">>
    /\ Len(waits) = 2
    /\ tpc = "returned"

-----------------------------------------------------------------------------
(* Properties of main.                                                      *)

RunInProgress == tpc \in {"attempting", "returned", "raised"}

MergedCue(c) == cover[c][2] = cover[c][1] + 1

\* C16: no translate_text run and no remote call starts before the merge pass
\* has completed; the runs are made in output order, one per merged cue, a
\* run starting only when every earlier cue's run has finished; a pipeline
\* that reaches write_srt has made exactly one run per merged cue.
C16_MergeThenSequentialRuns ==
    /\ (RunInProgress \/ calls # <<>> \/ runs # <<>>) =>
          /\ mpc = "done"
          /\ ~LoopCond(i)
          /\ Len(merged) = Len(cover)
          /\ Len(merged) = Len(srt_data) - merges
    /\ \A k \in 1..Len(runs) : runs[k].cue = k
    /\ RunInProgress =>
          /\ blk = Len(runs) + 1
          /\ blk <= Len(merged)
          /\ text = merged[blk].text
    /\ mainpc = "written" => Len(runs) = Len(merged)

C16_Witness ==
    /\ mainpc = "written"
    /\ Len(srt_data) = 3
    /\ merges = 1
    /\ Len(runs) = 2
    /\ runs[1].delay = 2
    /\ ~runs[1].exhausted

Max0(n) == IF n > 0 THEN n ELSE 0

Min(a, b) == IF a < b THEN a ELSE b

\* C17: main sleeps the pacing delay after the run of every merged cue except
\* the last, whether the run succeeded or fell back: after k runs it has slept
\* after cues 1..min(k, n - 1), and a pipeline that translated all n cues has
\* slept exactly max(n - 1, 0) times.
C17_PacingAfterEveryCueButLast ==
    /\ \A k \in 1..Len(paces) : paces[k] = k /\ k < Len(merged)
    /\ mainpc # "crashed" => Len(paces) = Min(Len(runs), Max0(Len(merged) - 1))
    /\ mainpc = "written" => Len(paces) = Max0(Len(merged) - 1)

C17_Witness ==
    /\ mainpc = "written"
    /\ Len(merged) = 3
    /\ paces = <<1, 2>>
    /\ runs[1].exhausted
    /\ ~runs[2].exhausted
    /\ runs[3].exhausted

\* C18: from the end of the merge pass on, the cues keep their number, order,
\* indices and timestamps; only the text of a cue whose run has returned may
\* differ, and a cue whose run was exhausted keeps its merged text.
C18_TranslationReplacesOnlyText ==
    mainpc \in {"translating", "written", "crashed"} =>
       /\ Len(combined_data) = Len(merged)
       /\ \A c \in 1..Len(combined_data) :
             /\ combined_data[c].index = merged[c].index
             /\ combined_data[c].timestamp = merged[c].timestamp
             /\ c > Len(runs) => combined_data[c].text = merged[c].text
             /\ (c <= Len(runs) /\ runs[c].exhausted) => combined_data[c].text = merged[c].text

C18_Witness ==
    /\ mainpc = "written"
    /\ Len(merged) = 2
    /\ MergedCue(1)
    /\ runs[1].exhausted
    /\ combined_data[1].text = <<"He", SP, "ran", SP, "of", SP, "the", SP, "man">>
    /\ combined_data[1].timestamp = <<"00:01", ARROW, "00:04">>
    /\ ~runs[2].exhausted
    /\ combined_data[2].text = <<"T", "T">>
    /\ combined_data[2].index = "2"

\* C20: every run starts with the attempt counter at zero and the backoff
\* delay at the configured initial delay, whatever the earlier runs did, and
\* within a run the counter equals the number of remote calls made; main
\* stops early only on a propagated error, never on an exhausted cue, and a
\* pipeline that reaches write_srt has run every cue after an exhausted one.
C20_RetryStateFreshPerCue ==
    /\ (tpc = "attempting" /\ calls = <<>>) =>
          /\ attempt = 0
          /\ delay = initial_delay
    /\ tpc = "attempting" => attempt = Len(calls)
    /\ mainpc = "crashed" => (tpc = "raised" \/ SleepRaises(pace_delay))
    /\ mainpc = "written" =>
          \A k \in 1..Len(runs) : (runs[k].exhausted /\ k < Len(merged)) => Len(runs) > k

C20_Witness ==
    /\ mainpc = "translating"
    /\ blk = 2
    /\ Len(runs) = 1
    /\ runs[1].exhausted
    /\ runs[1].delay = 2 * initial_delay
    /\ initial_delay = 1
    /\ tpc = "attempting"
    /\ calls = <<>>
    /\ attempt = 0
    /\ delay = 1

=============================================================================
